---------------------------- MODULE Spec2Model ----------------------------
(***************************************************************************)
(* Model of the thoth workload operator (src/app.py).                      *)
(*                                                                         *)
(* An operator process runs cli(): it starts the event_producer process,   *)
(* which turns ADDED watch events into names on a multiprocessing Queue,   *)
(* and then consumes the queue: re-fetch the ConfigMap, decode it with     *)
(* _get_method_and_parameters, call the template method, poll              *)
(* can_run_workload, call the run method and delete the ConfigMap.         *)
(*                                                                         *)
(* The cluster client (thoth.common.OpenShift, the dynamic ConfigMap       *)
(* resource) is the environment: every call of it returns, reports a       *)
(* ConflictError or raises another exception, nondeterministically.        *)
(* SpecRace and SpecCapacity narrow it: a run call that creates its work   *)
(* atomically, and an oracle that accounts for the work created.           *)
(***************************************************************************)
EXTENDS Integers, Sequences, FiniteSets, TLC

\* ------------------------------------------------------------------ bounds
\* Number of watch events external actors cause in one run.
MaxEvents == 2
\* Number of times can_run_workload answers False within one handling attempt.
MaxPolls == 1

\* ------------------------------------------------------------ value domains
\* Python's None: what the dynamic client yields for a field the ConfigMap lacks.
None == "<None>"

\* Names of the ConfigMaps (descriptors) of the watched namespace.
Names == {"cm1", "cm2"}

\* A name that is no ConfigMap of the namespace (marks an unset local).
NoName == "<unset>"

\* Attributes of the OpenShift object that getattr() resolves.
Registry == {"get_job_template", "schedule_job"}

\* States of a method-name field: absent, empty, resolvable, not resolvable.
MethodFieldValues == {None, "", "get_job_template", "schedule_job", "no_such_method"}

\* States of a parameters field: absent, empty, text that is no JSON, JSON
\* that is no object (a list, null), JSON objects.
ParamFieldValues == {None, "", "{cpu: 2", "[1]", "null", "{\"cpu\": 2}", "{}"}

\* The data section of a ConfigMap.
Descriptor(rn, rp, tn, tp) ==
    [run_method_name |-> rn, run_method_parameters |-> rp,
     template_method_name |-> tn, template_method_parameters |-> tp]

AllDescriptors ==
    { Descriptor(rn, rp, tn, tp) :
        rn \in MethodFieldValues, rp \in ParamFieldValues,
        tn \in MethodFieldValues, tp \in ParamFieldValues }

\* The well-formed two-phase descriptor.
ValidDescriptor ==
    Descriptor("schedule_job", "{\"cpu\": 2}", "get_job_template", "{}")

\* The descriptors external actors place in the namespace in the loop's
\* specification: the valid one, the single-phase shape (no template fields)
\* and one-field deviations of the valid one: a field absent or empty, text
\* that is no JSON, JSON that is no object, a method name that does not
\* resolve.  (The decoder is run on every combination of field states in
\* SpecDecode.)
DescriptorShapes ==
    { ValidDescriptor,
      Descriptor("schedule_job", "{\"cpu\": 2}", None, None),
      Descriptor(None, "{\"cpu\": 2}", "get_job_template", "{}"),
      Descriptor("schedule_job", "", "get_job_template", "{}"),
      Descriptor("schedule_job", "{\"cpu\": 2}", "", "{}"),
      Descriptor("schedule_job", "{\"cpu\": 2}", "get_job_template", None),
      Descriptor("schedule_job", "{cpu: 2", "get_job_template", "{}"),
      Descriptor("schedule_job", "{\"cpu\": 2}", "get_job_template", "{cpu: 2"),
      Descriptor("schedule_job", "[1]", "get_job_template", "{}"),
      Descriptor("schedule_job", "{\"cpu\": 2}", "get_job_template", "null"),
      Descriptor("no_such_method", "{\"cpu\": 2}", "get_job_template", "{}"),
      Descriptor("schedule_job", "{\"cpu\": 2}", "no_such_method", "{}") }

\* A ConfigMap that does not exist.
NotFound == Descriptor(None, None, None, None)

\* ----------------------------------------------------------- pure functions
\* Python truthiness of a field: `not x` holds of None and of "".
Falsy(x) == x = None \/ x = ""

\* json.loads: the texts it parses, and the value it returns for each.
JsonParses(s) == s \in {"[1]", "null", "{\"cpu\": 2}", "{}"}

JsonLoads(s) ==
    CASE s = "{\"cpu\": 2}" -> [kind |-> "dict", val |-> "cpu=2"]
      [] s = "{}"           -> [kind |-> "dict", val |-> ""]
      [] s = "[1]"          -> [kind |-> "list", val |-> "1"]
      [] s = "null"         -> [kind |-> "NoneType", val |-> ""]
      [] OTHER              -> [kind |-> "error", val |-> ""]

\* A value no json.loads returned (an unset local).
NoValue == [kind |-> "unset", val |-> ""]

\* f(**v) needs v to be a mapping; anything else raises TypeError.
IsMapping(v) == v.kind = "dict"

\* getattr(openshift, name) raises AttributeError for an unknown name.
Resolves(name) == name \in Registry

\* Result of _get_method_and_parameters: the tuple it returns, or the
\* ValueError it raises, told apart by the message it logged (cause).
DecodeError(cause) ==
    [ok |-> FALSE, cause |-> cause,
     method_name |-> None, parameters |-> NoValue,
     template_method_name |-> None, template_method_parameters |-> NoValue]

DecodeOk(rn, rp, tn, tp) ==
    [ok |-> TRUE, cause |-> "",
     method_name |-> rn, parameters |-> rp,
     template_method_name |-> tn, template_method_parameters |-> tp]

\* Mutant: the decoder of the single-phase form, which accepts a descriptor
\* without template fields.
Decode_single_phase(data) ==
    IF Falsy(data.run_method_name) THEN DecodeError("no method")
    ELSE IF Falsy(data.run_method_parameters) THEN DecodeError("no parameters")
    ELSE IF ~JsonParses(data.run_method_parameters)
        THEN DecodeError("failed to parse parameters")
    ELSE IF Falsy(data.template_method_name)
        THEN DecodeOk(data.run_method_name,
                      JsonLoads(data.run_method_parameters), None, NoValue)
    ELSE IF Falsy(data.template_method_parameters)
        THEN DecodeError("no template method parameters")
    ELSE IF ~JsonParses(data.template_method_parameters)
        THEN DecodeError("failed to parse template parameters")
    ELSE DecodeOk(data.run_method_name,
                  JsonLoads(data.run_method_parameters),
                  data.template_method_name,
                  JsonLoads(data.template_method_parameters))

\* Mutant: the template method name is checked before the run parameters
\* are parsed.
Decode_reordered(data) ==
    IF Falsy(data.run_method_name) THEN DecodeError("no method")
    ELSE IF Falsy(data.run_method_parameters) THEN DecodeError("no parameters")
    ELSE IF Falsy(data.template_method_name)
        THEN DecodeError("no template method name")
    ELSE IF ~JsonParses(data.run_method_parameters)
        THEN DecodeError("failed to parse parameters")
    ELSE IF Falsy(data.template_method_parameters)
        THEN DecodeError("no template method parameters")
    ELSE IF ~JsonParses(data.template_method_parameters)
        THEN DecodeError("failed to parse template parameters")
    ELSE DecodeOk(data.run_method_name,
                  JsonLoads(data.run_method_parameters),
                  data.template_method_name,
                  JsonLoads(data.template_method_parameters))

_get_method_and_parameters(data) ==
    IF Falsy(data.run_method_name) THEN DecodeError("no method")
    ELSE IF Falsy(data.run_method_parameters) THEN DecodeError("no parameters")
    ELSE IF ~JsonParses(data.run_method_parameters)
        THEN DecodeError("failed to parse parameters")
    ELSE IF Falsy(data.template_method_name)
        THEN DecodeError("no template method name")
    ELSE IF Falsy(data.template_method_parameters)
        THEN DecodeError("no template method parameters")
    ELSE IF ~JsonParses(data.template_method_parameters)
        THEN DecodeError("failed to parse template parameters")
    ELSE DecodeOk(data.run_method_name,
                  JsonLoads(data.run_method_parameters),
                  data.template_method_name,
                  JsonLoads(data.template_method_parameters))


\* -------------------------------------------------------------------- state
VARIABLES
    configmaps,   \* the namespace: ConfigMap name -> its data, or NotFound
    watch,        \* per operator: events the cluster has sent, not yet received
    queue,        \* per operator: the multiprocessing Queue of cli
    producer,     \* per operator: "alive" or "dead" (producer.is_alive())
    pc,           \* per operator: where the consumer loop of cli stands
    local,        \* per operator: the local variables of cli
    exit_code,    \* per operator: {} while running, {status} once exited
    log,          \* per operator: the calls of its current loop iteration
    handled,      \* per operator: the names queue.get() has returned, in order
    runs,         \* per operator: the iterations that invoked the run method
    received,     \* per operator: the events event_producer has received
    events,       \* number of events external actors caused so far
    scheduled,    \* the cluster: name -> the units of work that exist for it,
                  \* each given by the operator whose run call created it
    deletions,    \* name -> the deletion calls made for it: who, and how it ended
    codec_in,     \* input of the stand-alone decoder run
    codec_out     \* its result

loopVars == <<configmaps, watch, queue, producer, pc, local, exit_code, log,
              handled, runs, received, events, scheduled, deletions>>
codecVars == <<codec_in, codec_out>>
vars == <<configmaps, watch, queue, producer, pc, local, exit_code, log,
          handled, runs, received, events, scheduled, deletions,
          codec_in, codec_out>>

\* The operator processes of a run.
Procs == DOMAIN pc

\* An entry of an iteration's log: the operation, the ConfigMap handled, the
\* candidate unit and the parameters passed (or, for the template call,
\* produced), how the call ended and, for a get, the data it returned.
Entry(op, name, unit, params, res, data) ==
    [op |-> op, name |-> name, unit |-> unit, params |-> params,
     res |-> res, data |-> data]

\* Locals of cli before the first iteration.
InitLocal ==
    [configmap_name |-> NoName, configmap |-> NotFound,
     method_name |-> None, method_parameters |-> NoValue,
     template_method_name |-> None, template_method_parameters |-> NoValue,
     template |-> 0]

\* Number of False answers of can_run_workload in the iteration of operator p.
FalsePolls(p) ==
    Cardinality({ i \in 1..Len(log[p]) :
        log[p][i].op = "can_run_workload" /\ log[p][i].res = "False" })

\* The state after construction, for a set of operator processes: the
\* namespace is empty and every operator's watch is connected.
InitLoop(procs) ==
    /\ configmaps = [n \in Names |-> NotFound]
    /\ watch = [p \in procs |-> <<>>]
    /\ queue = [p \in procs |-> <<>>]
    /\ producer = [p \in procs |-> "alive"]
    /\ pc = [p \in procs |-> "loop"]
    /\ local = [p \in procs |-> InitLocal]
    /\ exit_code = [p \in procs |-> {}]
    /\ log = [p \in procs |-> <<>>]
    /\ handled = [p \in procs |-> <<>>]
    /\ runs = [p \in procs |-> <<>>]
    /\ received = [p \in procs |-> <<>>]
    /\ events = 0
    /\ scheduled = [n \in Names |-> <<>>]
    /\ deletions = [n \in Names |-> <<>>]

Init ==
    /\ InitLoop({1})
    /\ codec_in = NotFound
    /\ codec_out = DecodeError("")

\* ------------------------------------------------------------- environment
\* The cluster sends an event to every operator whose watch is connected.
Emit(type, name) ==
    [p \in DOMAIN watch |->
        IF producer[p] = "alive"
        THEN Append(watch[p], [type |-> type, name |-> name])
        ELSE watch[p]]

\* An external actor creates a labelled ConfigMap.
ExternalCreate(n, d) ==
    /\ events < MaxEvents
    /\ configmaps[n] = NotFound
    /\ configmaps' = [configmaps EXCEPT ![n] = d]
    /\ watch' = Emit("ADDED", n)
    /\ events' = events + 1
    /\ UNCHANGED <<queue, producer, pc, local, exit_code, log, handled, runs,
                   received, codecVars,
                   scheduled, deletions>>

\* An external actor touches a ConfigMap (its data stay as they are).
ExternalModify(n) ==
    /\ events < MaxEvents
    /\ configmaps[n] /= NotFound
    /\ watch' = Emit("MODIFIED", n)
    /\ events' = events + 1
    /\ UNCHANGED <<configmaps, queue, producer, pc, local, exit_code, log,
                   handled, runs, received, codecVars,
                   scheduled, deletions>>

\* An external actor deletes a ConfigMap.
ExternalDelete(n) ==
    /\ events < MaxEvents
    /\ configmaps[n] /= NotFound
    /\ configmaps' = [configmaps EXCEPT ![n] = NotFound]
    /\ watch' = Emit("DELETED", n)
    /\ events' = events + 1
    /\ UNCHANGED <<queue, producer, pc, local, exit_code, log, handled, runs,
                   received, codecVars,
                   scheduled, deletions>>

\* ---------------------------------------------------------- event_producer
\* Mutant: every event but a deletion is queued.
IsAddition_not_deleted(type) == type /= "DELETED"

\* Whether event_producer queues an event of this type (line 46).
IsAddition(type) == type = "ADDED"

\* One iteration of the for loop over the watch.
event_producer(p) ==
    /\ producer[p] = "alive"
    /\ watch[p] /= <<>>
    /\ watch' = [watch EXCEPT ![p] = Tail(@)]
    /\ queue' = [queue EXCEPT ![p] =
                    IF IsAddition(Head(watch[p]).type)
                    THEN Append(@, Head(watch[p]).name)
                    ELSE @]
    /\ received' = [received EXCEPT ![p] = Append(@, Head(watch[p]))]
    /\ UNCHANGED <<configmaps, producer, pc, local, exit_code, log, handled,
                   runs, events, codecVars,
                   scheduled, deletions>>

\* The producer process ends: the watch stream closes or raises.
ProducerDies(p) ==
    /\ producer[p] = "alive"
    /\ producer' = [producer EXCEPT ![p] = "dead"]
    /\ watch' = [watch EXCEPT ![p] = <<>>]
    /\ UNCHANGED <<configmaps, queue, pc, local, exit_code, log, handled, runs,
                   received, events, codecVars,
                   scheduled, deletions>>

\* ------------------------------------------------------ cli: consumer loop
\* The local variables of operator p.
L(p) == local[p]

\* A log entry of the current iteration of operator p.
Call(p, op, unit, params, res) ==
    Entry(op, L(p).configmap_name, unit, params, res, NotFound)

\* Outcomes of a call that reached the collaborator.
CallOutcomes == {"ok", "ConflictError", "Exception"}

\* What the except clauses of lines 184-189 log for an outcome of the try
\* block: a warning for ConflictError, an exception report for anything else.
Handler(res) == IF res = "ConflictError" THEN "warning" ELSE "exception"

\* What a step of the try block that ended with res adds to the log: the
\* call, when one was made, and then the report of the except clause, when
\* it raised.
Logged(p, called, call, res) ==
    (IF called THEN <<call>> ELSE <<>>)
        \o (IF res \in {"ok", "True", "False"}
            THEN <<>>
            ELSE <<Call(p, Handler(res), 0, NoValue, res)>>)

\* `while producer.is_alive()` (line 156).
AfterLoopTest(alive) == IF alive THEN "get" ELSE "join"

LoopTest(p) ==
    /\ pc[p] = "loop"
    /\ pc' = [pc EXCEPT ![p] = AfterLoopTest(producer[p] = "alive")]
    /\ UNCHANGED <<configmaps, watch, queue, producer, local, exit_code, log,
                   handled, runs, received, events, codecVars,
                   scheduled, deletions>>

\* Mutant: queue.get() returns the newest item.
QueueHead_newest(q) == q[Len(q)]

\* The item queue.get() returns: the oldest one.
QueueHead(q) == Head(q)

\* `configmap_name = queue.get()` (line 157): blocks while the queue is empty.
QueueGet(p) ==
    /\ pc[p] = "get"
    /\ queue[p] /= <<>>
    /\ queue' = [queue EXCEPT ![p] = Tail(@)]
    /\ local' = [local EXCEPT ![p].configmap_name = QueueHead(queue[p])]
    /\ handled' = [handled EXCEPT ![p] = Append(@, QueueHead(queue[p]))]
    /\ log' = [log EXCEPT ![p] =
                <<Entry("handle", QueueHead(queue[p]), 0, NoValue, "ok", NotFound)>>]
    /\ pc' = [pc EXCEPT ![p] = "fetch"]
    /\ UNCHANGED <<configmaps, watch, producer, exit_code, runs, received,
                   events, codecVars,
                   scheduled, deletions>>

\* v1_configmap.get (lines 161-165): fails for a ConfigMap that is gone, and
\* may fail for one that exists.
GetOutcomes(n) ==
    IF configmaps[n] = NotFound THEN {"Exception"} ELSE {"ok", "Exception"}

\* Mutant: the loop goes on to the decode whether the get failed or not.
AfterGet_ignore_error(res) == "decode"

AfterGet(res) == IF res = "ok" THEN "decode" ELSE "loop"

Refetch(p) ==
    /\ pc[p] = "fetch"
    /\ \E res \in GetOutcomes(L(p).configmap_name) :
        /\ log' = [log EXCEPT ![p] =
                    Append(@, Entry("get", L(p).configmap_name, 0, NoValue, res,
                                    IF res = "ok"
                                    THEN configmaps[L(p).configmap_name]
                                    ELSE NotFound))]
        /\ local' = [local EXCEPT ![p].configmap =
                        IF res = "ok" THEN configmaps[L(p).configmap_name] ELSE @]
        /\ pc' = [pc EXCEPT ![p] = AfterGet(res)]
    /\ UNCHANGED <<configmaps, watch, queue, producer, exit_code, handled, runs,
                   received, events, codecVars,
                   scheduled, deletions>>

\* Mutant: the loop goes on to the template call whatever the decode says.
AfterDecode_ignore_error(r) == "template"

\* Lines 167-172: the tuple assignment, or `continue` on ValueError.
AfterDecode(r) == IF r.ok THEN "template" ELSE "loop"

Decode(p) ==
    /\ pc[p] = "decode"
    /\ LET r == _get_method_and_parameters(L(p).configmap) IN
        /\ local' = [local EXCEPT ![p] =
                        IF r.ok
                        THEN [@ EXCEPT
                                !.method_name = r.method_name,
                                !.method_parameters = r.parameters,
                                !.template_method_name = r.template_method_name,
                                !.template_method_parameters =
                                    r.template_method_parameters]
                        ELSE @]
        /\ log' = [log EXCEPT ![p] =
                    Append(@, Call(p, "decode", 0, NoValue,
                                   IF r.ok THEN "ok" ELSE r.cause))]
        /\ pc' = [pc EXCEPT ![p] = AfterDecode(r)]
    /\ UNCHANGED <<configmaps, watch, queue, producer, exit_code, handled, runs,
                   received, events, codecVars,
                   scheduled, deletions>>

\* Line 176: getattr resolves the name, ** unpacks the parameters, and only
\* then is the template method called.
TemplateOutcomes(l) ==
    IF ~Resolves(l.template_method_name) THEN {"AttributeError"}
    ELSE IF ~IsMapping(l.template_method_parameters) THEN {"TypeError"}
    ELSE CallOutcomes

\* Mutant: the run call follows the template call without the capacity wait.
AfterTemplate_no_gate(res) == IF res = "ok" THEN "run" ELSE "loop"

\* Mutant: a failed template call ends the loop.
AfterTemplate_fatal(res) == IF res = "ok" THEN "poll" ELSE "join"

AfterTemplate(res) == IF res = "ok" THEN "poll" ELSE "loop"

\* The candidate unit a template call returns: a new one with every call
\* (named here by the number of the iteration that made the call).
NewUnit(p) == Len(handled[p])

CallTemplate(p) ==
    /\ pc[p] = "template"
    /\ \E res \in TemplateOutcomes(L(p)) :
        /\ log' = [log EXCEPT ![p] =
                    @ \o Logged(p, res \in CallOutcomes,
                            Call(p, "template", NewUnit(p),
                                 L(p).template_method_parameters, res), res)]
        /\ local' = [local EXCEPT ![p].template =
                        IF res = "ok" THEN NewUnit(p) ELSE @]
        /\ pc' = [pc EXCEPT ![p] = AfterTemplate(res)]
    /\ UNCHANGED <<configmaps, watch, queue, producer, exit_code, handled, runs,
                   received, events, codecVars,
                   scheduled, deletions>>

\* Lines 179-180: `while not openshift.can_run_workload(template, ns): sleep`.
PollOutcomes(p) ==
    {"True", "ConflictError", "Exception"}
        \cup (IF FalsePolls(p) < MaxPolls THEN {"False"} ELSE {})

\* Mutant: the calls are made without the unit the template call produced.
TemplateArg_none(l) == 0

\* The candidate unit handed to can_run_workload and to the run method.
TemplateArg(l) == l.template

\* Mutant: the wait ends with the first answer of the oracle, True or False.
AfterPoll_no_wait(res) ==
    IF res \in {"True", "False"} THEN "run" ELSE "loop"

\* Mutant: while the oracle answers False the operator takes the next name.
AfterPoll_skip_ahead(res) ==
    IF res = "True" THEN "run" ELSE IF res = "False" THEN "get" ELSE "loop"

AfterPoll(res) ==
    IF res = "True" THEN "run" ELSE IF res = "False" THEN "poll" ELSE "loop"

PollCapacity(p) ==
    /\ pc[p] = "poll"
    /\ \E res \in PollOutcomes(p) :
        /\ log' = [log EXCEPT ![p] =
                    @ \o Logged(p, TRUE,
                            Call(p, "can_run_workload", TemplateArg(L(p)),
                                 NoValue, res), res)]
        /\ pc' = [pc EXCEPT ![p] = AfterPoll(res)]
    /\ UNCHANGED <<configmaps, watch, queue, producer, local, exit_code, handled,
                   runs, received, events, codecVars,
                   scheduled, deletions>>

\* Lines 182-183: getattr resolves the run method, ** unpacks the parameters,
\* and only then is the run method called, with template=template.
RunOutcomes(l) ==
    IF ~Resolves(l.method_name) THEN {"AttributeError"}
    ELSE IF ~IsMapping(l.method_parameters) THEN {"TypeError"}
    ELSE CallOutcomes

\* Mutant: a conflict reported by the run call counts as a successful run.
AfterRun_conflict_deletes(res) ==
    IF res \in {"ok", "ConflictError"} THEN "delete" ELSE "loop"

\* Mutant: the deletion follows the run call however it ended.
AfterRun_always_delete(res) == "delete"

AfterRun(res) == IF res = "ok" THEN "delete" ELSE "loop"

CallRun(p) ==
    /\ pc[p] = "run"
    /\ \E res \in RunOutcomes(L(p)) :
        /\ log' = [log EXCEPT ![p] =
                    @ \o Logged(p, res \in CallOutcomes,
                            Call(p, "run", TemplateArg(L(p)),
                                 L(p).method_parameters, res), res)]
        /\ runs' = [runs EXCEPT ![p] =
                    IF res \in CallOutcomes THEN Append(@, Len(handled[p])) ELSE @]
        /\ scheduled' = [scheduled EXCEPT ![L(p).configmap_name] =
                            IF res = "ok" THEN Append(@, p) ELSE @]
        /\ pc' = [pc EXCEPT ![p] = AfterRun(res)]
    /\ UNCHANGED <<configmaps, watch, queue, producer, local, exit_code, handled,
                   received, events, codecVars, deletions>>

\* Lines 200-209: v1_configmap.delete; a failure is logged and swallowed.
DeleteOutcomes(n) ==
    IF configmaps[n] = NotFound THEN {"Exception"} ELSE {"ok", "Exception"}

\* Mutant: line 201 deletes the ConfigMap of one fixed name.
DeleteTarget_first(l) == "cm1"

\* The ConfigMap that line 201 deletes.
DeleteTarget(l) == l.configmap_name

\* Mutant: a failed deletion is tried again.
AfterDelete_retry(res) == IF res = "ok" THEN "loop" ELSE "delete"

\* Lines 202-209: deleted or not, the iteration ends and the loop goes on.
AfterDelete(res) == "loop"

\* Lines 191-209.  The template is taken to carry the metadata.name that the
\* log call of line 191 reads, as the templates of the collaborator do.
DeleteConfigMap(p) ==
    /\ pc[p] = "delete"
    /\ \E res \in DeleteOutcomes(DeleteTarget(L(p))) :
        /\ log' = [log EXCEPT ![p] =
                    Append(@, Entry("delete", DeleteTarget(L(p)), 0, NoValue,
                                    res, NotFound))]
        /\ configmaps' = IF res = "ok"
                         THEN [configmaps EXCEPT ![DeleteTarget(L(p))] = NotFound]
                         ELSE configmaps
        /\ watch' = IF res = "ok" THEN Emit("DELETED", DeleteTarget(L(p))) ELSE watch
        /\ deletions' = [deletions EXCEPT ![DeleteTarget(L(p))] =
                            Append(@, [by |-> p, res |-> res])]
        /\ pc' = [pc EXCEPT ![p] = AfterDelete(res)]
    /\ UNCHANGED <<queue, producer, local, exit_code, handled, runs, received,
                   events, codecVars, scheduled>>

\* Lines 211-214: producer.join() and sys.exit(1).
ExitStatus == {1}

Exit(p) ==
    /\ pc[p] = "join"
    /\ producer[p] = "dead"
    /\ pc' = [pc EXCEPT ![p] = "exited"]
    /\ exit_code' = [exit_code EXCEPT ![p] = ExitStatus]
    /\ UNCHANGED <<configmaps, watch, queue, producer, local, log, handled, runs,
                   received, events, codecVars,
                   scheduled, deletions>>

\* A step of the consumer loop of operator p.
Consumer(p) ==
    \/ LoopTest(p)
    \/ QueueGet(p)
    \/ Refetch(p)
    \/ Decode(p)
    \/ CallTemplate(p)
    \/ PollCapacity(p)
    \/ CallRun(p)
    \/ DeleteConfigMap(p)
    \/ Exit(p)

\* ------------------------------------------------------------ specification
Next ==
    \/ \E n \in Names, d \in DescriptorShapes : ExternalCreate(n, d)
    \/ \E n \in Names : ExternalModify(n)
    \/ \E n \in Names : ExternalDelete(n)
    \/ \E p \in Procs : event_producer(p)
    \/ \E p \in Procs : ProducerDies(p)
    \/ \E p \in Procs : LoopTest(p)
    \/ \E p \in Procs : QueueGet(p)
    \/ \E p \in Procs : Refetch(p)
    \/ \E p \in Procs : Decode(p)
    \/ \E p \in Procs : CallTemplate(p)
    \/ \E p \in Procs : PollCapacity(p)
    \/ \E p \in Procs : CallRun(p)
    \/ \E p \in Procs : DeleteConfigMap(p)
    \/ \E p \in Procs : Exit(p)

Spec == Init /\ [][Next]_vars

\* The consumer scheduled fairly: a step of the loop that can be taken is
\* eventually taken (the operator process is never suspended for ever).
FairSpec == Spec /\ WF_vars(Consumer(1))

\* The stand-alone run of the decoder on every combination of field states.
NotDecoded == DecodeError("not decoded")

InitDecode ==
    /\ InitLoop({1})
    /\ codec_in \in AllDescriptors
    /\ codec_out = NotDecoded

DecodeStep ==
    /\ codec_out = NotDecoded
    /\ codec_out' = _get_method_and_parameters(codec_in)
    /\ UNCHANGED <<loopVars, codec_in>>

SpecDecode == InitDecode /\ [][DecodeStep]_vars

\* Two operator processes on one namespace, each with its own watch, producer
\* and queue.  The run operation of their collaborator creates the work named
\* after the descriptor atomically: where that work exists it creates nothing
\* and raises (the conflict, or another error).
InitRace ==
    /\ InitLoop({1, 2})
    /\ codec_in = NotFound
    /\ codec_out = DecodeError("")

\* The descriptor both operators race on: created, and created again under
\* the same name once it is deleted.
RaceNames == {"cm1"}

CallRunAtomic(p) ==
    /\ CallRun(p)
    /\ Len(scheduled'[L(p).configmap_name]) <= 1

NextRace ==
    \/ \E n \in RaceNames : ExternalCreate(n, ValidDescriptor)
    \/ \E p \in Procs : event_producer(p)
    \/ \E p \in Procs : ProducerDies(p)
    \/ \E p \in Procs : LoopTest(p)
    \/ \E p \in Procs : QueueGet(p)
    \/ \E p \in Procs : Refetch(p)
    \/ \E p \in Procs : Decode(p)
    \/ \E p \in Procs : CallTemplate(p)
    \/ \E p \in Procs : PollCapacity(p)
    \/ \E p \in Procs : CallRunAtomic(p)
    \/ \E p \in Procs : DeleteConfigMap(p)
    \/ \E p \in Procs : Exit(p)

SpecRace == InitRace /\ [][NextRace]_vars

\* One operator as the only consumer of the capacity of a cluster that holds
\* at most Capacity units of work: a successful run call adds a unit, a unit
\* that completes frees its place, and can_run_workload answers True while
\* there is a free place and False while there is none.
Capacity == 1

\* The amount of work in the cluster.
RECURSIVE UnitsOf(_)
UnitsOf(S) ==
    IF S = {} THEN 0
    ELSE LET n == CHOOSE n \in S : TRUE
         IN  Len(scheduled[n]) + UnitsOf(S \ {n})

Amount == UnitsOf(Names)

\* What can_run_workload answers for the state of the cluster.
OracleAnswer == IF Amount < Capacity THEN "True" ELSE "False"

PollCapacityAccounted(p) ==
    /\ PollCapacity(p)
    /\ log'[p][Len(log[p]) + 1].res \in {OracleAnswer, "ConflictError", "Exception"}

\* A unit of work of descriptor n completes.
WorkCompletes(n) ==
    /\ scheduled[n] /= <<>>
    /\ scheduled' = [scheduled EXCEPT ![n] = Tail(@)]
    /\ UNCHANGED <<configmaps, watch, queue, producer, pc, local, exit_code, log,
                   handled, runs, received, events, deletions, codecVars>>

NextCapacity ==
    \/ \E n \in Names, d \in DescriptorShapes : ExternalCreate(n, d)
    \/ \E n \in Names : ExternalModify(n)
    \/ \E n \in Names : ExternalDelete(n)
    \/ \E n \in Names : WorkCompletes(n)
    \/ \E p \in Procs : event_producer(p)
    \/ \E p \in Procs : ProducerDies(p)
    \/ \E p \in Procs : LoopTest(p)
    \/ \E p \in Procs : QueueGet(p)
    \/ \E p \in Procs : Refetch(p)
    \/ \E p \in Procs : Decode(p)
    \/ \E p \in Procs : CallTemplate(p)
    \/ \E p \in Procs : PollCapacityAccounted(p)
    \/ \E p \in Procs : CallRun(p)
    \/ \E p \in Procs : DeleteConfigMap(p)
    \/ \E p \in Procs : Exit(p)

SpecCapacity == Init /\ [][NextCapacity]_vars

\* ------------------------------------------------- vocabulary of the claims
\* The indices of the log of operator p's current (or last) iteration, and
\* those of its entries of one kind.
Idx(p) == 1..Len(log[p])

EntriesOf(p, op) == { i \in Idx(p) : log[p][i].op = op }

\* Operations invoked on the collaborator on behalf of the descriptor.
Invocations(p) ==
    EntriesOf(p, "template") \cup EntriesOf(p, "can_run_workload")
        \cup EntriesOf(p, "run")

\* Operator p is between a dequeue and the end of that iteration.
InProgress(p) ==
    pc[p] \in {"fetch", "decode", "template", "poll", "run", "delete"}

\* The iteration of operator p is over: p is back at the loop test, waits
\* for the next name, or has left the loop through the loop test.
Finished(p) == log[p] /= <<>> /\ ~InProgress(p)

\* The get of the iteration returned the descriptor; the data it returned.
HasFetched(p) == \E i \in EntriesOf(p, "get") : log[p][i].res = "ok"

Fetched(p) ==
    IF HasFetched(p)
    THEN log[p][CHOOSE i \in EntriesOf(p, "get") : log[p][i].res = "ok"].data
    ELSE NotFound

\* The last index of a non-empty set of indices.
Last(S) == CHOOSE i \in S : \A j \in S : j <= i

\* ------------------------------------------------------------------ C1
\* C1: a deletion call is made for a handled descriptor exactly when its run
\* invocation succeeded, once, for its own name and after the run returned;
\* an iteration whose template call, capacity check or run failed makes none.
C1_DeletionOnSuccess ==
    \A p \in Procs :
        /\ Cardinality(EntriesOf(p, "delete")) <= 1
        /\ \A i \in EntriesOf(p, "delete") :
            /\ log[p][i].name = log[p][1].name
            /\ \E j \in EntriesOf(p, "run") : j < i /\ log[p][j].res = "ok"
        /\ (Finished(p) /\ \E j \in EntriesOf(p, "run") : log[p][j].res = "ok")
            => Cardinality(EntriesOf(p, "delete")) = 1
        /\ (EntriesOf(p, "warning") \cup EntriesOf(p, "exception") /= {})
            => EntriesOf(p, "delete") = {}

\* An iteration whose run succeeded is over, with its one deletion call.
C1_Witness ==
    \E p \in Procs :
        /\ Finished(p)
        /\ \E j \in EntriesOf(p, "run") : log[p][j].res = "ok"
        /\ Cardinality(EntriesOf(p, "delete")) = 1

\* ------------------------------------------------------------------ C2
\* A descriptor lacks a required field: the field is absent or empty.
LacksField(d) ==
    \/ Falsy(d.run_method_name)
    \/ Falsy(d.run_method_parameters)
    \/ Falsy(d.template_method_name)
    \/ Falsy(d.template_method_parameters)

\* The iteration ended in its decode step: the decode failed, nothing was
\* invoked or deleted, and the operator went back to the loop test.
StoppedAtDecode(p) ==
    /\ \A i \in EntriesOf(p, "decode") : log[p][i].res /= "ok"
    /\ Invocations(p) = {}
    /\ EntriesOf(p, "delete") = {}
    /\ EntriesOf(p, "decode") /= {} => Finished(p)

\* The decoder fails for every combination of field states with a field
\* absent or empty.
DecodeRejectsMissing ==
    \A d \in AllDescriptors : LacksField(d) => ~_get_method_and_parameters(d).ok

NotAMapping(s) == ~Falsy(s) /\ ~(JsonParses(s) /\ IsMapping(JsonLoads(s)))

\* C3 (as claimed): for a descriptor whose run or template parameters are
\* non-empty and not a valid structured mapping the decode fails and nothing
\* is invoked or deleted.
C3_Claim ==
    \A p \in Procs :
        (/\ HasFetched(p)
         /\ \/ NotAMapping(Fetched(p).run_method_parameters)
            \/ NotAMapping(Fetched(p).template_method_parameters))
        => StoppedAtDecode(p)

\* ------------------------------------------------------------------ C4
\* The six checks of the decoder, in the order of the specification, each
\* with the cause it reports.
Checks(d) ==
    << [fails |-> Falsy(d.run_method_name), cause |-> "no method"],
       [fails |-> Falsy(d.run_method_parameters), cause |-> "no parameters"],
       [fails |-> ~JsonParses(d.run_method_parameters),
        cause |-> "failed to parse parameters"],
       [fails |-> Falsy(d.template_method_name),
        cause |-> "no template method name"],
       [fails |-> Falsy(d.template_method_parameters),
        cause |-> "no template method parameters"],
       [fails |-> ~JsonParses(d.template_method_parameters),
        cause |-> "failed to parse template parameters"] >>

Failing(d) == { k \in 1..Len(Checks(d)) : Checks(d)[k].fails }

\* The reference decoder: the cause of the first failing check, or all four
\* decoded values when no check fails.
ReferenceDecode(d) ==
    IF Failing(d) /= {}
    THEN DecodeError(Checks(d)[CHOOSE k \in Failing(d) :
                                    \A m \in Failing(d) : k <= m].cause)
    ELSE DecodeOk(d.run_method_name, JsonLoads(d.run_method_parameters),
                  d.template_method_name, JsonLoads(d.template_method_parameters))

\* C4: for every combination of field states the decoder's outcome is that
\* of the reference decoder: the cause of the first failing check in the
\* fixed order, or the four decoded values when all six checks pass.
C4_DecodeOrder ==
    codec_out /= NotDecoded => codec_out = ReferenceDecode(codec_in)

\* A descriptor failing the third and the fourth check was decoded, and the
\* cause reported is that of the third.
C4_Witness ==
    /\ codec_in.run_method_parameters = "{cpu: 2"
    /\ codec_in.template_method_name = None
    /\ ~Falsy(codec_in.run_method_name)
    /\ codec_out = DecodeError("failed to parse parameters")

\* ------------------------------------------------------------------ C5
\* The capacity polls of the iteration of operator p.
Polls(p) == EntriesOf(p, "can_run_workload")

\* C5: the run operation is invoked only after a poll of the capacity oracle
\* returned True, which is the last poll and follows only polls that
\* returned False (N polls answered False, the poll N+1 answered True);
\* while the last answer is False the operator stays in the wait and no run
\* invocation exists.
C5_CapacityGating ==
    \A p \in Procs :
        /\ \A i \in EntriesOf(p, "run") :
            /\ Polls(p) /= {}
            /\ Last(Polls(p)) < i
            /\ log[p][Last(Polls(p))].res = "True"
            /\ \A j \in Polls(p) : j /= Last(Polls(p)) => log[p][j].res = "False"
            /\ Cardinality(Polls(p)) = FalsePolls(p) + 1
        /\ pc[p] = "run" =>
            (Polls(p) /= {} /\ log[p][Last(Polls(p))].res = "True")
        /\ (Polls(p) /= {} /\ log[p][Last(Polls(p))].res = "False") =>
            (EntriesOf(p, "run") = {} /\ pc[p] = "poll")

\* The run operation was invoked in an iteration whose oracle had answered
\* False before it answered True.
C5_Witness ==
    \E p \in Procs :
        /\ EntriesOf(p, "run") /= {}
        /\ FalsePolls(p) >= 1
        /\ Cardinality(Polls(p)) = FalsePolls(p) + 1

\* ------------------------------------------------------------------ C6
\* The names event_producer has put on the queue of operator p, in order.
Puts(p) == SelectSeq(received[p], LAMBDA e : IsAddition(e.type))

\* C6: descriptors are taken in the order their addition events were
\* delivered, run invocations are made in that order, and while the operator
\* is stalled in the capacity wait for a descriptor every run invocation it
\* has made belongs to a descriptor delivered earlier.
C6_HeadOfLine ==
    \A p \in Procs :
        /\ Len(handled[p]) <= Len(Puts(p))
        /\ \A k \in 1..Len(handled[p]) : handled[p][k] = Puts(p)[k].name
        /\ \A i, j \in 1..Len(runs[p]) : i < j => runs[p][i] < runs[p][j]
        /\ \A i \in 1..Len(runs[p]) : runs[p][i] <= Len(handled[p])
        /\ pc[p] = "poll" =>
            \A i \in 1..Len(runs[p]) : runs[p][i] < Len(handled[p])

\* The operator is stalled in the capacity wait for the first of two
\* delivered descriptors, the oracle has answered False, and the second, a
\* valid one, waits in the queue.
C6_Witness ==
    \E p \in Procs :
        /\ pc[p] = "poll"
        /\ FalsePolls(p) >= 1
        /\ Len(Puts(p)) = 2
        /\ Len(handled[p]) = 1
        /\ queue[p] /= <<>>
        /\ configmaps[Head(queue[p])] = ValidDescriptor

\* ------------------------------------------------------------------ C7
\* C7: an iteration whose run succeeded consists of one template call, k
\* polls answered False and one answered True, all with the unit that this
\* template call produced, one run call with the decoded run parameters and
\* that unit, and the deletion call, in this order.
C7_TwoPhaseRun ==
    \A p \in Procs :
        (Finished(p) /\ \E j \in EntriesOf(p, "run") : log[p][j].res = "ok") =>
            LET T == log[p]
                k == FalsePolls(p)
                d == Fetched(p)
            IN  /\ Len(T) = k + 7
                /\ T[1].op = "handle"
                /\ T[2].op = "get" /\ T[2].res = "ok"
                /\ T[3].op = "decode" /\ T[3].res = "ok"
                /\ T[4].op = "template" /\ T[4].res = "ok"
                /\ T[4].params = JsonLoads(d.template_method_parameters)
                /\ T[4].unit = Len(handled[p])
                /\ \A i \in 5..(4 + k) :
                    /\ T[i].op = "can_run_workload"
                    /\ T[i].res = "False"
                    /\ T[i].unit = T[4].unit
                /\ T[5 + k].op = "can_run_workload"
                /\ T[5 + k].res = "True"
                /\ T[5 + k].unit = T[4].unit
                /\ T[6 + k].op = "run" /\ T[6 + k].res = "ok"
                /\ T[6 + k].unit = T[4].unit
                /\ T[6 + k].params = JsonLoads(d.run_method_parameters)
                /\ T[7 + k].op = "delete" /\ T[7 + k].name = T[1].name

\* A two-phase iteration is over whose oracle answered False once and then
\* True, whose run succeeded and whose descriptor is deleted.
C7_Witness ==
    \E p \in Procs :
        /\ Finished(p)
        /\ FalsePolls(p) = 1
        /\ \E j \in EntriesOf(p, "run") : log[p][j].res = "ok"
        /\ \E j \in EntriesOf(p, "delete") : log[p][j].res = "ok"
        /\ configmaps[log[p][1].name] = NotFound

\* ------------------------------------------------------------------ C8
\* The single-phase shape: a run method and valid run parameters, and no
\* template fields.
SinglePhase(d) ==
    /\ ~Falsy(d.run_method_name)
    /\ JsonParses(d.run_method_parameters)
    /\ IsMapping(JsonLoads(d.run_method_parameters))
    /\ d.template_method_name = None
    /\ d.template_method_parameters = None

C9_Claim ==
    (producer[1] = "dead")
        ~> (pc[1] = "exited" /\ exit_code[1] /= {} /\ 0 \notin exit_code[1])

\* ------------------------------------------------------------------ C10
\* The calls of the try block that can report a conflict.
TryOps == {"template", "can_run_workload", "run"}

\* C10: a ConflictError of the template call, the capacity check or the run
\* call is logged as a warning and ends the iteration: nothing more is
\* invoked for the descriptor, no deletion call is made, and the operator is
\* back in its loop, which it leaves only when the producer is dead.
C10_ConflictHandled ==
    \A p \in Procs :
        /\ \A i \in Idx(p) :
            (log[p][i].op \in TryOps /\ log[p][i].res = "ConflictError") =>
                /\ Len(log[p]) = i + 1
                /\ log[p][i + 1].op = "warning"
                /\ EntriesOf(p, "delete") = {}
                /\ Cardinality(EntriesOf(p, "run")) <= 1
                /\ Finished(p)
        /\ pc[p] \in {"join", "exited"} => producer[p] = "dead"

\* A run call reported a conflict, the descriptor is still there, and the
\* operator is back in its loop, waiting for the next name.
C10_Witness ==
    \E p \in Procs :
        /\ \E i \in EntriesOf(p, "run") : log[p][i].res = "ConflictError"
        /\ configmaps[log[p][1].name] = Fetched(p)
        /\ pc[p] = "get"

\* ------------------------------------------------------------------ C11
\* The deletion calls made for descriptor n that deleted it.
Deleted(n) == { i \in 1..Len(deletions[n]) : deletions[n][i].res = "ok" }

\* C11: with two operators on one namespace and a run operation that creates
\* the named work atomically, the work of a descriptor is created at most
\* once, every deletion call for the descriptor comes from the operator
\* whose run created it, at most one deletion call deletes it, and an
\* operator leaves its loop only when its producer is dead.
C11_RaceTolerance ==
    /\ \A n \in Names :
        /\ Len(scheduled[n]) <= 1
        /\ \A i \in 1..Len(deletions[n]) :
            scheduled[n] /= <<>> /\ deletions[n][i].by = scheduled[n][1]
        /\ Cardinality(Deleted(n)) <= 1
    /\ \A p \in Procs :
        /\ pc[p] \in {"join", "exited"} => producer[p] = "dead"
        /\ exit_code[p] /= {} => pc[p] = "exited"

\* Both operators handled the same descriptor: the run of one created the
\* work and it deleted the descriptor, the run of the other reported the
\* conflict, and both are waiting for the next name.
C11_Witness ==
    \E p, q \in Procs, n \in Names :
        /\ p /= q
        /\ scheduled[n] = <<p>>
        /\ deletions[n] = <<[by |-> p, res |-> "ok"]>>
        /\ \E i \in EntriesOf(q, "run") :
            log[q][i].name = n /\ log[q][i].res = "ConflictError"
        /\ pc[p] = "get" /\ pc[q] = "get"

\* ------------------------------------------------------------------ C12
\* The entries of the iteration of operator p that record a failed step: a
\* failed get, decode or deletion, or the report of an except clause of the
\* try block (an unresolved operation, a failed template, poll or run call).
Failures(p) ==
    { i \in Idx(p) :
        \/ log[p][i].op \in {"get", "decode", "delete"} /\ log[p][i].res /= "ok"
        \/ log[p][i].op \in {"warning", "exception"} }

\* The names put on the queue of operator p are those it has taken, in
\* order, followed by those still queued.
QueueKept(p) ==
    /\ Len(handled[p]) + Len(queue[p]) = Len(Puts(p))
    /\ \A k \in 1..Len(queue[p]) : queue[p][k] = Puts(p)[Len(handled[p]) + k].name

\* The steps after the decode work on what the decode of this iteration
\* returned for the descriptor fetched in this iteration, and those after
\* the template call on the unit this iteration's template call produced.
FreshLocals(p) ==
    /\ InProgress(p) => L(p).configmap_name = log[p][1].name
    /\ pc[p] \in {"template", "poll", "run", "delete"} =>
        /\ HasFetched(p)
        /\ L(p).method_name = Fetched(p).run_method_name
        /\ L(p).method_parameters = JsonLoads(Fetched(p).run_method_parameters)
        /\ L(p).template_method_name = Fetched(p).template_method_name
        /\ L(p).template_method_parameters =
            JsonLoads(Fetched(p).template_method_parameters)
    /\ pc[p] \in {"poll", "run", "delete"} => L(p).template = Len(handled[p])

DeleteFailed(p) == \E i \in EntriesOf(p, "delete") : log[p][i].res /= "ok"

\* After a failed deletion call the iteration is over: the call is its last
\* entry and its only deletion call, it follows the one template call and
\* the one run call of the iteration, and the operator is back at its loop.
C13_Swallowed ==
    \A p \in Procs :
        DeleteFailed(p) =>
            /\ log[p][Len(log[p])].op = "delete"
            /\ Cardinality(EntriesOf(p, "delete")) = 1
            /\ Cardinality(EntriesOf(p, "template")) = 1
            /\ Cardinality(EntriesOf(p, "run")) = 1
            /\ Finished(p)
            /\ pc[p] \in {"join", "exited"} => producer[p] = "dead"

\* The step of a deletion call that fails changes no descriptor and takes
\* the operator to its loop test.
C13_Step ==
    \A p \in Procs :
        (pc[p] = "delete" /\ log'[p] /= log[p] /\ DeleteFailed(p)') =>
            /\ configmaps' = configmaps
            /\ pc'[p] = "loop"

\* C13: a deletion call that fails after a successful run is swallowed: the
\* loop goes on, nothing is invoked again for the descriptor, the deletion is
\* not tried again, and the descriptor stays as it was.
C13_DeletionFailureSwallowed == []C13_Swallowed /\ [][C13_Step]_vars

\* The deletion call after a successful run failed, the descriptor is still
\* in the namespace and the operator waits for the next name.
C13_Witness ==
    \E p \in Procs :
        /\ DeleteFailed(p)
        /\ \E j \in EntriesOf(p, "run") : log[p][j].res = "ok"
        /\ configmaps[log[p][1].name] = Fetched(p)
        /\ pc[p] = "get"

\* ------------------------------------------------------------------ C14
\* The events of type ADDED among those event_producer of operator p has
\* received, in order.
Additions(p) == SelectSeq(received[p], LAMBDA e : e.type = "ADDED")

\* The names operator p has taken from its queue, then those still on it.
Taken(p) == handled[p] \o queue[p]

\* C14: the names that were put on the queue (those taken from it and those
\* still on it) are, one for one and in order, the names of the ADDED events
\* received; a MODIFIED or DELETED event puts none, so every iteration, with
\* its get, decode, invocations and deletion, belongs to an ADDED event.
C14_OnlyAdditions ==
    \A p \in Procs :
        /\ Len(Taken(p)) = Len(Additions(p))
        /\ \A k \in 1..Len(Taken(p)) : Taken(p)[k] = Additions(p)[k].name
        /\ log[p] /= <<>> =>
            /\ handled[p] /= <<>>
            /\ \A i \in Idx(p) : log[p][i].name = handled[p][Len(handled[p])]

\* event_producer has received an ADDED, a MODIFIED and a DELETED event of
\* one descriptor, and the operator has taken one name and none is queued.
C14_Witness ==
    \E p \in Procs, n \in Names :
        /\ \A t \in {"ADDED", "MODIFIED", "DELETED"} :
            \E k \in 1..Len(received[p]) :
                received[p][k] = [type |-> t, name |-> n]
        /\ Len(received[p]) = 3
        /\ handled[p] = <<n>>
        /\ queue[p] = <<>>

\* ------------------------------------------------------------------ C15
\* A descriptor that decodes and names, as its template method or as its run
\* method, an operation the collaborator does not have.
NamesUnknown(d) ==
    /\ _get_method_and_parameters(d).ok
    /\ \/ ~Resolves(d.template_method_name)
       \/ ~Resolves(d.run_method_name)

\* C15 (as claimed): for a descriptor naming an unknown operation, as
\* template method or as run method, no operation is invoked and no
\* deletion call is made, and once the failure has shown it is reported
\* and the operator is back at its loop.
C15_Claim ==
    \A p \in Procs :
        (HasFetched(p) /\ NamesUnknown(Fetched(p))) =>
            /\ Invocations(p) = {}
            /\ EntriesOf(p, "delete") = {}
            /\ EntriesOf(p, "exception") /= {} => Finished(p)

\* ------------------------------------------------------------------ C16
\* The descriptor of the iteration of operator p has reached a terminal
\* state: Completed (its deletion call was made) or Failed (its get or its
\* decode failed, or an except clause of the try block reported a failure).
Terminal(p) ==
    \/ log[p] = <<>>
    \/ log[p][Len(log[p])].op \in {"delete", "warning", "exception"}
    \/ /\ log[p][Len(log[p])].op \in {"get", "decode"}
       /\ log[p][Len(log[p])].res /= "ok"

\* C16: an operator takes the names in the order their ADDED events were
\* delivered; every step of its iteration is for the one name it took last;
\* and it is outside an iteration, free to take the next name, exactly when
\* the descriptor of the name it took last has reached a terminal state.
C16_OneAtATime ==
    \A p \in Procs :
        /\ Len(handled[p]) <= Len(Additions(p))
        /\ \A k \in 1..Len(handled[p]) : handled[p][k] = Additions(p)[k].name
        /\ \A i \in Idx(p) : log[p][i].name = handled[p][Len(handled[p])]
        /\ InProgress(p) <=> ~Terminal(p)

\* The first of two descriptors went up to its run call and is in a
\* terminal state; the operator is in the iteration of the second.
C16_Witness ==
    \E p \in Procs :
        /\ Len(handled[p]) = 2
        /\ runs[p] = <<1>>
        /\ pc[p] = "run"
        /\ log[p][1].name = handled[p][2]

\* ------------------------------------------------------------------ C17
\* C17: with one operator as the only consumer of capacity and an oracle
\* that accounts for the work every successful run created, the operator is
\* about to invoke a run operation only while a place is free, and the
\* amount of work in the cluster never exceeds the capacity.
C17_NoOvercommit ==
    /\ Amount <= Capacity
    /\ \A p \in Procs : pc[p] = "run" => Amount < Capacity

\* The cluster is full and the operator is stalled in the capacity wait for
\* the next descriptor, the oracle having answered False.
C17_Witness ==
    \E p \in Procs :
        /\ Amount = Capacity
        /\ pc[p] = "poll"
        /\ FalsePolls(p) >= 1
        /\ Len(handled[p]) = Capacity + 1

\* ------------------------------------------------------------------ C18
\* The get of the iteration of operator p failed.
GetFailed(p) == \E i \in EntriesOf(p, "get") : log[p][i].res /= "ok"

\* C18: an iteration whose get failed consists of the dequeue and the get:
\* no decode, no template call, no capacity poll, no run call and no deletion
\* call is made, and the operator is back at its loop; and the get of a
\* descriptor that is gone does fail.
C18_GoneNotScheduled ==
    /\ \A n \in Names : configmaps[n] = NotFound => "ok" \notin GetOutcomes(n)
    /\ \A p \in Procs :
        GetFailed(p) =>
            /\ Len(log[p]) = 2
            /\ EntriesOf(p, "decode") = {}
            /\ Invocations(p) = {}
            /\ EntriesOf(p, "delete") = {}
            /\ Finished(p)
            /\ pc[p] \in {"join", "exited"} => producer[p] = "dead"

\* An event was delivered for a descriptor that was gone when the operator
\* came to it: the get failed and the operator waits for the next name.
C18_Witness ==
    \E p \in Procs :
        /\ GetFailed(p)
        /\ configmaps[log[p][1].name] = NotFound
        /\ pc[p] = "get"

\* ------------------------------------------------------------------ C19
\* A step of an operator: one that no external actor caused.
OperatorStep == events' = events /\ vars' /= vars

\* The name operator p took last from its queue.
Current(p) == handled[p][Len(handled[p])]

\* C19: a step of an operator that changes the descriptors is the deletion
\* call of an operator that has passed its run call, and removes the one
\* descriptor this operator took last from its queue; every other step (the
\* get, the decode, the template call, a capacity poll, the run call) leaves
\* the set of descriptors and the content of each as they were.
C19_Step ==
    (OperatorStep /\ configmaps' /= configmaps) =>
        \E p \in Procs :
            /\ pc[p] = "delete"
            /\ pc'[p] /= pc[p]
            /\ configmaps[Current(p)] /= NotFound
            /\ configmaps' = [configmaps EXCEPT ![Current(p)] = NotFound]

C19_OnlyDeletes == [][C19_Step]_vars

\* An operator has deleted the second of two descriptors, and the first,
\* which it handled before, is still in the namespace, unchanged.
C19_Witness ==
    \E p \in Procs :
        /\ Len(handled[p]) = 2
        /\ handled[p][1] /= handled[p][2]
        /\ \E i \in EntriesOf(p, "delete") : log[p][i].res = "ok"
        /\ configmaps[handled[p][2]] = NotFound
        /\ configmaps[handled[p][1]] = ValidDescriptor

\* ------------------------------------------------------------------ C20
\* The k-th name put on the queue of operator p was taken from it and its
\* descriptor brought to a terminal state.
Settled(p, k) ==
    \/ Len(handled[p]) > k
    \/ Len(handled[p]) = k /\ Terminal(p)

\* C20 (as claimed): with the consumer scheduled fairly, every name that
\* event_producer has put on the queue is eventually taken from it and its
\* descriptor brought to a terminal state, whether the producer lives on or
\* not.
C20_Claim ==
    \A k \in 1..MaxEvents : (Len(Puts(1)) >= k) ~> Settled(1, k)

\* The same with the producer alive for as long as names are queued (not
\* part of the claim; it shows which behaviours violate it).
C20_WhileProducerAlive ==
    \A k \in 1..MaxEvents :
        (Len(Puts(1)) >= k) ~> (Settled(1, k) \/ producer[1] = "dead")

=============================================================================
